---------------------------- MODULE Spec2Model ----------------------------
(***************************************************************************)
(* A model of src/main.py: CityObject (ring reconstruction and entity      *)
(* construction), Factory (category resolution, directory setters and the  *)
(* directory scan) and DrivingEnvironment (generation, visualisation and   *)
(* the __main__ bootstrap).                                                *)
(*                                                                         *)
(* Conventions.  A Python call is an action; what it returns or raises is  *)
(* stored in ret.  A raised exception is a record [type, at, info] naming  *)
(* the Python exception type and the source site that raises it.  Text     *)
(* (category tags, file names) is a sequence of one-character strings so   *)
(* that lower(), strip() and splitext() are computed, not assumed.  The    *)
(* file system and the feature reader are the program's inputs: disk gives *)
(* for each directory whether it exists, its listing in os.listdir order   *)
(* and what the reader makes of each file; the program never writes it.    *)
(***************************************************************************)
EXTENDS Integers, Sequences, FiniteSets, TLC

VARIABLES
    inp,      \* the arguments of the pending pure call, or of the construction made
    disk,     \* the file system and feature reader: what each directory holds
    fac,      \* the Factory under test, or NoObject before construction
    env,      \* the DrivingEnvironment, or NoObject before construction
    ret       \* the last call: its operation, arguments, outcome and events

vars == <<inp, disk, fac, env, ret>>

\* Python's None and a present value, for optional arguments and fields.
None == [none |-> TRUE]
Some(v) == [none |-> FALSE, val |-> v]
NoObject == None
Idle == [op |-> "idle"]

\* ---------------------------------------------------------------- outcomes

Ok(v) == [ok |-> TRUE, val |-> v]
Raise(type, at, info) == [ok |-> FALSE, err |-> [type |-> type, at |-> at, info |-> info]]

\* ---------------------------------------------------------------- bounds

MaxCoords == 12
MaxRows == 2
MaxFiles == 2
MaxPad == 1

\* ------------------------------------------------------- sequence helpers

\* The value of e, computed once and handed to Body.
Bind(e, Body(_)) == CHOOSE y \in {Body(x) : x \in {e}} : TRUE

\* The concatenation of the sequences of ss, in order.
Flatten(ss) ==
    LET Loop[k \in 0..Len(ss)] == IF k = 0 THEN <<>> ELSE Loop[k - 1] \o ss[k]
    IN  Loop[Len(ss)]

SeqsUpTo(S, n) == UNION {[1..k -> S] : k \in 0..n}

\* ------------------------------------------------- CityObject.__init__ 21-23

\* numpy: np.array(coordinates).reshape(-1, 3).  The buffer b is the array's
\* elements in storage order; reshape keeps that order and cuts it into rows
\* of three, and raises ValueError when the size is not a multiple of 3.
Reshape3(b) ==
    IF Len(b) % 3 # 0
    THEN Raise("ValueError", "reshape", Len(b))
    ELSE Ok([i \in 1..(Len(b) \div 3) |-> <<b[3*i - 2], b[3*i - 1], b[3*i]>>])

\* shapely: LinearRing(array).  Fewer than three coordinate tuples raise
\* ValueError; a ring whose last tuple differs from its first is closed by
\* appending the first.  All three columns of the array are kept.
LinearRing(pts) ==
    IF Len(pts) < 3
    THEN Raise("ValueError", "LinearRing", Len(pts))
    ELSE Ok(IF pts[1] = pts[Len(pts)] THEN pts ELSE Append(pts, pts[1]))

\* shapely: Polygon(shell): the polygon whose exterior is the ring.
Polygon(shell) == [exterior |-> shell]

\* One pass of the loop body at lines 22-23.
ReconstructDropZ(b) ==
    Bind(Reshape3(b), LAMBDA arr :
      IF ~arr.ok THEN arr
      ELSE Bind(LinearRing([i \in 1..Len(arr.val) |-> <<arr.val[i][1], arr.val[i][2]>>]),
                LAMBDA ring : IF ~ring.ok THEN ring ELSE Ok(Polygon(ring.val))))

reconstruct(b) ==
    Bind(Reshape3(b), LAMBDA arr :
      IF ~arr.ok THEN arr
      ELSE Bind(LinearRing(arr.val),
                LAMBDA ring : IF ~ring.ok THEN ring ELSE Ok(Polygon(ring.val))))

\* ------------------------------------------------- CityObject.__init__ 17-23

\* A table (the reader's GeoDataFrame) is a sequence of rows
\* [name, function, geometry]; a column is indexed from 0 as in Python, and
\* an index that is no row label raises KeyError.
NRows(gml) == Len(gml)

Column(gml, col, index) ==
    IF index \in 0..(NRows(gml) - 1)
    THEN Ok(gml[index + 1][col])
    ELSE Raise("KeyError", "column:" \o col, index)

\* The for loop at lines 21-23 over the row's parts: Loop[k] is the list
\* after k parts, or the exception that ended the loop.
BuildPolygonsSkipBad(parts) ==
    LET Loop[k \in 0..Len(parts)] ==
          IF k = 0 THEN Ok(<<>>)
          ELSE Bind(Loop[k - 1], LAMBDA done :
                 Bind(reconstruct(parts[k]), LAMBDA p :
                   IF ~p.ok THEN done ELSE Ok(Append(done.val, p.val))))
    IN  Loop[Len(parts)]

BuildPolygons(parts) ==
    LET Loop[k \in 0..Len(parts)] ==
          IF k = 0 THEN Ok(<<>>)
          ELSE Bind(Loop[k - 1], LAMBDA done :
                 IF ~done.ok THEN done
                 ELSE Bind(reconstruct(parts[k]), LAMBDA p :
                        IF ~p.ok THEN p ELSE Ok(Append(done.val, p.val))))
    IN  Loop[Len(parts)]

CityObject(kind, gml, index) ==
    Bind(Column(gml, "name", index), LAMBDA name :
      IF ~name.ok THEN name
      ELSE Bind(Column(gml, "geometry", index), LAMBDA geom :
             IF ~geom.ok THEN geom
             ELSE Bind(BuildPolygons(geom.val), LAMBDA polys :
                    IF ~polys.ok THEN polys
                    ELSE Ok([kind |-> kind, gml |-> gml, name |-> name.val,
                             polygons |-> polys.val]))))

\* Road.__init__ and TrafficSign.__init__ only call super().__init__.
Road(gml, index) == CityObject("Road", gml, index)
TrafficSign(gml, index) == CityObject("TrafficSign", gml, index)

\* ------------------------------------------------------------------- text

UpperCase == <<"A","B","C","D","E","F","G","H","I","J","K","L","M",
               "N","O","P","Q","R","S","T","U","V","W","X","Y","Z">>
LowerCase == <<"a","b","c","d","e","f","g","h","i","j","k","l","m",
               "n","o","p","q","r","s","t","u","v","w","x","y","z">>
Whitespace == {" ", "\t", "\n"}

\* str.lower(): every cased character to its lower-case form.
LowerChar(c) ==
    IF \E i \in 1..26 : UpperCase[i] = c
    THEN LowerCase[CHOOSE i \in 1..26 : UpperCase[i] = c]
    ELSE c

lower(s) == [i \in 1..Len(s) |-> LowerChar(s[i])]

\* str.strip(): leading and trailing whitespace removed.
RECURSIVE lstrip(_)
lstrip(s) ==
    IF s # <<>> /\ Head(s) \in Whitespace THEN lstrip(Tail(s)) ELSE s

RECURSIVE rstrip(_)
rstrip(s) ==
    IF s # <<>> /\ s[Len(s)] \in Whitespace THEN rstrip(SubSeq(s, 1, Len(s) - 1)) ELSE s

strip(s) == rstrip(lstrip(s))

\* os.path.join(a, b).
PathJoin(a, b) == [dir |-> a, file |-> b]

\* os.path.splitext(p) for a name without separators: the extension starts
\* at the last dot, unless only dots precede it.
LastDot(p) ==
    IF \E i \in 1..Len(p) : p[i] = "."
    THEN CHOOSE i \in 1..Len(p) : p[i] = "." /\ \A j \in (i + 1)..Len(p) : p[j] # "."
    ELSE 0

splitext(p) ==
    LET dotIndex == LastDot(p) IN
    IF dotIndex > 0 /\ \E k \in 1..(dotIndex - 1) : p[k] # "."
    THEN <<SubSeq(p, 1, dotIndex - 1), SubSeq(p, dotIndex, Len(p))>>
    ELSE <<p, <<>>>>

\* int(x) for a number of the function column (x stands for x/2):
\* truncation toward zero.
int(x) == IF x >= 0 THEN x \div 2 ELSE -((-x) \div 2)

\* --------------------------------------------------- Factory.__init__ 58-63

Cwd == "cwd"
road == <<"r","o","a","d">>
trafficsign == <<"t","r","a","f","f","i","c","s","i","g","n">>
DotGml == <<".","g","m","l">>

FactoryNoStrip(folder, function_id) ==
    [folder |-> lower(folder),
     function_id |-> function_id,
     _road_dir |-> PathJoin(Cwd, "Road Kerb"),
     _traffic_sign_dir |-> PathJoin(Cwd, "Traffic Sign")]

Factory(folder, function_id) ==
    [folder |-> strip(lower(folder)),
     function_id |-> function_id,
     _road_dir |-> PathJoin(Cwd, "Road Kerb"),
     _traffic_sign_dir |-> PathJoin(Cwd, "Traffic Sign")]

\* ------------------------------------------------- Factory setters 66-83

set_road_dir_both(f, dir) == [f EXCEPT !._road_dir = dir, !._traffic_sign_dir = dir]

set_road_dir(f, dir) == [f EXCEPT !._road_dir = dir]

set_traffic_sign_dir(f, dir) == [f EXCEPT !._traffic_sign_dir = dir]

\* ------------------------------------------- Factory.get_folder_info 94-98

get_folder_info(f) ==
    IF f.folder = road THEN Ok([dir |-> f._road_dir, ctor |-> "get_road"])
    ELSE IF f.folder = trafficsign
         THEN Ok([dir |-> f._traffic_sign_dir, ctor |-> "get_traffic_sign"])
         ELSE Raise("KeyError", "get_folder_info", f.folder)

\* Factory.get_road and Factory.get_traffic_sign, 86-91.
Construct(ctor, gml, index) ==
    IF ctor = "get_road" THEN Road(gml, index) ELSE TrafficSign(gml, index)

\* ----------------------------------------- Factory.get_city_objects 101-125

IgnoreFields == {"gml_id", "creationDate", "class", "usage", "usage_",
                 "relativeToTerrain", "informationSystem",
                 "externalReference|externalObject|name", "surfaceMaterial"}

\* The test of the comprehension at line 123.
SelectedNoInt(f, x) == f.function_id.none \/ x = 2 * f.function_id.val

Selected(f, x) == f.function_id.none \/ int(x) = f.function_id.val

\* The list comprehension at line 123: Loop[k] is the list after the rows
\* 0..k-1, or the exception that ended it.
SelectRows(f, gml) ==
    LET Loop[k \in 0..NRows(gml)] ==
          IF k = 0 THEN Ok(<<>>)
          ELSE Bind(Loop[k - 1], LAMBDA done :
                 IF ~done.ok \/ ~Selected(f, gml[k].function) THEN done
                 ELSE Bind(Construct(get_folder_info(f).val.ctor, gml, k - 1), LAMBDA obj :
                        IF ~obj.ok THEN obj ELSE Ok(Append(done.val, obj.val))))
    IN  Loop[NRows(gml)]

ReadEvent(path, bbox) ==
    [kind |-> "read_file", path |-> path, bbox |-> bbox, ignore_fields |-> IgnoreFields]

\* The mutants of the loop: one that skips a file it cannot read, one that
\* matches the extension in any letter case.
ScanFilesSkipUnreadable(f, directory, bbox, files, read) ==
    LET Loop[k \in 0..Len(files)] ==
          IF k = 0 THEN [out |-> Ok(<<>>), events |-> <<>>]
          ELSE Bind(Loop[k - 1], LAMBDA done :
                 IF ~done.out.ok \/ splitext(files[k])[2] # DotGml THEN done
                 ELSE Bind(Append(done.events, ReadEvent(PathJoin(directory, files[k]), bbox)),
                           LAMBDA evs :
                        IF ~read[files[k]].readable
                        THEN [out |-> done.out, events |-> evs]
                        ELSE Bind(SelectRows(f, read[files[k]].table), LAMBDA rows :
                               IF ~rows.ok THEN [out |-> rows, events |-> evs]
                               ELSE [out |-> Ok(done.out.val \o rows.val), events |-> evs])))
    IN  Loop[Len(files)]

ScanFilesAnyCase(f, directory, bbox, files, read) ==
    LET Loop[k \in 0..Len(files)] ==
          IF k = 0 THEN [out |-> Ok(<<>>), events |-> <<>>]
          ELSE Bind(Loop[k - 1], LAMBDA done :
                 IF ~done.out.ok \/ lower(splitext(files[k])[2]) # DotGml THEN done
                 ELSE Bind(Append(done.events, ReadEvent(PathJoin(directory, files[k]), bbox)),
                           LAMBDA evs :
                        IF ~read[files[k]].readable
                        THEN [out |-> Raise("ReaderError", "read_file", read[files[k]].error),
                              events |-> evs]
                        ELSE Bind(SelectRows(f, read[files[k]].table), LAMBDA rows :
                               IF ~rows.ok THEN [out |-> rows, events |-> evs]
                               ELSE [out |-> Ok(done.out.val \o rows.val), events |-> evs])))
    IN  Loop[Len(files)]

\* The for loop at lines 109-123 over the listing: Loop[k] is the items and
\* the reader calls after k entries, or the exception that ended the loop.
\* read is the feature reader: for each file name, whether it can be read,
\* the table it yields and the exception it raises otherwise, which leaves
\* the call as the reader made it.
ScanFiles(f, directory, bbox, files, read) ==
    LET Loop[k \in 0..Len(files)] ==
          IF k = 0 THEN [out |-> Ok(<<>>), events |-> <<>>]
          ELSE Bind(Loop[k - 1], LAMBDA done :
                 IF ~done.out.ok \/ splitext(files[k])[2] # DotGml THEN done
                 ELSE Bind(Append(done.events, ReadEvent(PathJoin(directory, files[k]), bbox)),
                           LAMBDA evs :
                        IF ~read[files[k]].readable
                        THEN [out |-> Raise("ReaderError", "read_file", read[files[k]].error),
                              events |-> evs]
                        ELSE Bind(SelectRows(f, read[files[k]].table), LAMBDA rows :
                               IF ~rows.ok THEN [out |-> rows, events |-> evs]
                               ELSE [out |-> Ok(done.out.val \o rows.val), events |-> evs])))
    IN  Loop[Len(files)]

\* d is the file system and reader at the time of the call.
get_city_objects(f, bbox, d) ==
    Bind(get_folder_info(f), LAMBDA info :
      IF ~info.ok THEN [out |-> info, events |-> <<>>]
      ELSE IF ~d[info.val.dir].exists
           THEN [out |-> Raise("FileNotFoundError", "listdir", info.val.dir),
                 events |-> <<[kind |-> "listdir", dir |-> info.val.dir]>>]
           ELSE Bind(ScanFiles(f, info.val.dir, bbox, d[info.val.dir].listing,
                               d[info.val.dir].read),
                     LAMBDA scan :
                  [out |-> scan.out,
                   events |-> <<[kind |-> "listdir", dir |-> info.val.dir]>> \o scan.events]))

\* -------------------------------------- DrivingEnvironment.__init__ 137-144

\* A call DrivingEnvironment(*args), with region what gpd.read_file makes of
\* the geojson file.  __init__ takes one argument besides self: any other
\* number is a TypeError of the call.
DrivingEnvironment(args, region) ==
    IF Len(args) # 1
    THEN Raise("TypeError", "DrivingEnvironment.__init__", Len(args))
    ELSE IF ~region.readable
         THEN Raise("ReaderError", "read_geojson", args[1])
         ELSE Ok([geojson_geometry |-> region.geometry,
                  road_factory |-> Factory(<<"R","o","a","d">>, None),
                  traffic_sign |-> Factory(<<"T","r","a","f","f","i","c","S","i","g","n">>, None)])

\* ---------------------------------------- DrivingEnvironment.generate_* 147-165

generate_roads(e, d) == get_city_objects(e.road_factory, Some(e.geojson_geometry), d)

generate_traffic_signs(e, d) == get_city_objects(e.traffic_sign, Some(e.geojson_geometry), d)

PolygonLists(entities) == [i \in 1..Len(entities) |-> entities[i].polygons]

generate_all_signs_first(e, d) ==
    Bind(generate_roads(e, d), LAMBDA roads :
      IF ~roads.out.ok THEN roads
      ELSE Bind(generate_traffic_signs(e, d), LAMBDA signs :
             IF ~signs.out.ok
             THEN [out |-> signs.out, events |-> roads.events \o signs.events]
             ELSE [out |-> Ok(Flatten(PolygonLists(signs.out.val)
                                      \o PolygonLists(roads.out.val))),
                   events |-> roads.events \o signs.events]))

generate_all(e, d) ==
    Bind(generate_roads(e, d), LAMBDA roads :
      IF ~roads.out.ok THEN roads
      ELSE Bind(generate_traffic_signs(e, d), LAMBDA signs :
             IF ~signs.out.ok
             THEN [out |-> signs.out, events |-> roads.events \o signs.events]
             ELSE [out |-> Ok(Flatten(PolygonLists(roads.out.val)
                                      \o PolygonLists(signs.out.val))),
                   events |-> roads.events \o signs.events]))

\* ------------------------------------------ DrivingEnvironment.visualize 168-188

\* `not items`: None and the empty list are both false.
Falsy(items) == items.none \/ items.val = <<>>

Draw(geometry, kwargs) ==
    <<[kind |-> "GeoDataFrame", geometry |-> geometry],
      [kind |-> "plot", kwargs |-> kwargs],
      [kind |-> "show"]>>

visualize_none_only(e, items, kwargs, d) ==
    IF items.none
    THEN Bind(generate_all(e, d), LAMBDA g :
           IF ~g.out.ok THEN g
           ELSE [out |-> Ok(None), events |-> g.events \o Draw(g.out.val, kwargs)])
    ELSE [out |-> Ok(None), events |-> Draw(items.val, kwargs)]

visualize(e, items, kwargs, d) ==
    IF Falsy(items)
    THEN Bind(generate_all(e, d), LAMBDA g :
           IF ~g.out.ok THEN g
           ELSE [out |-> Ok(None), events |-> g.events \o Draw(g.out.val, kwargs)])
    ELSE [out |-> Ok(None), events |-> Draw(items.val, kwargs)]

\* ---------------------------------------------------------- __main__ 193-196

FigSize == {<<"figsize", <<6, 6>>>>}

main(region, d) ==
    Bind(DrivingEnvironment(<<Cwd, "arae.geojson">>, region), LAMBDA made :
      IF ~made.ok
      THEN [out |-> made,
            events |-> <<[kind |-> "DrivingEnvironment", args |-> <<Cwd, "arae.geojson">>]>>]
      ELSE Bind(generate_all(made.val, d), LAMBDA items :
             IF ~items.out.ok
             THEN [out |-> items.out,
                   events |-> <<[kind |-> "DrivingEnvironment",
                                 args |-> <<Cwd, "arae.geojson">>]>> \o items.events]
             ELSE Bind(visualize(made.val, Some(items.out.val), FigSize, d), LAMBDA v :
                    [out |-> v.out,
                     events |-> <<[kind |-> "DrivingEnvironment",
                                   args |-> <<Cwd, "arae.geojson">>]>>
                                \o items.events \o v.events])))

\* The failure names of the specification, as the exceptions the code raises.
InvalidGeometry(r) == ~r.ok /\ r.err.type = "ValueError" /\ r.err.at = "reshape"
IndexOutOfRange(r) == ~r.ok /\ r.err.type = "KeyError" /\ r.err.at = "column:name"
UnknownCategory(r) == ~r.ok /\ r.err.type = "KeyError" /\ r.err.at = "get_folder_info"
DirectoryNotFound(r) == ~r.ok /\ r.err.type = "FileNotFoundError" /\ r.err.at = "listdir"
FeatureFileReadError(r) == ~r.ok /\ r.err.type = "ReaderError" /\ r.err.at = "read_file"

\* ------------------------------------------------------------ input pools

Coord == {0, 1}
RingBuffers == SeqsUpTo(Coord, MaxCoords)

\* Closed rings of four (x, y, z) triples, and a buffer of four numbers.
RingA == <<0,0,0, 1,0,0, 1,1,0, 0,0,0>>
RingB == <<0,0,1, 0,1,1, 1,1,1, 0,0,1>>
RingBad == <<0,0,0,1>>
GeomPool == {<<>>, <<RingA>>, <<RingA, RingB>>, <<RingB, RingBad>>}

NamePool == {"kerb", "sign"}

RowPool == [name : NamePool, function : {2}, geometry : GeomPool]
TablePool == SeqsUpTo(RowPool, MaxRows)

\* The function column holds numbers; a value h stands for h/2, so that
\* 2 is 1.0, 3 is 1.5 and 4 is 2.0.
Row(name, function, geometry) ==
    [name |-> name, function |-> function, geometry |-> geometry]

\* Three rows whose function values are 1.0, 2.0 and 1.5; one row; two rows
\* of which the second has a malformed ring buffer.
TableScenario ==
    <<Row("kerb", 2, <<RingA>>), Row("sign", 4, <<RingA, RingB>>), Row("kerb", 3, <<RingB>>)>>
TableOne == <<Row("sign", 4, <<RingA>>)>>
TableMixed == <<Row("kerb", 2, <<RingB>>), Row("kerb", 4, <<RingBad>>)>>

\* What gpd.read_file makes of a file: a table, or an exception of the
\* reader's own with the reader's message.
Readable(t) == [readable |-> TRUE, table |-> t, error |-> [message |-> "none"]]
UnreadableAs(message) ==
    [readable |-> FALSE, table |-> <<>>, error |-> [message |-> message]]
Unreadable == UnreadableAs("not recognized as a supported file format")
ScanOutcomes == {Unreadable, UnreadableAs("no geometry column"),
                 Readable(<<>>), Readable(TableScenario),
                 Readable(TableOne), Readable(TableMixed)}

\* File names: a.gml, b.tar.gml, c.GML, .gml and d.txt.
Fa == <<"a",".","g","m","l">>
Fb == <<"b",".","t","a","r",".","g","m","l">>
Fc == <<"c",".","G","M","L">>
Fh == <<".","g","m","l">>
Fd == <<"d",".","t","x","t">>
FileNames == {Fa, Fb, Fc, Fh, Fd}

Range(q) == {q[i] : i \in 1..Len(q)}

\* A directory listing names each entry once.
Listings(names, n) ==
    {l \in SeqsUpTo(names, n) : \A i, j \in 1..Len(l) : i # j => l[i] # l[j]}

NoDirectory == [exists |-> FALSE, listing |-> <<>>, read |-> <<>>]

Worlds(listings, outcomes) ==
    {NoDirectory} \cup
    UNION {{[exists |-> TRUE, listing |-> l, read |-> r] : r \in [Range(l) -> outcomes]}
           : l \in listings}

ScanWorlds == Worlds(Listings(FileNames, MaxFiles), ScanOutcomes)
OneFile == [exists |-> TRUE, listing |-> <<Fa>>, read |-> [n \in {Fa} |-> Readable(TableOne)]]

\* Category tags as a caller may write them: a spelling, between runs of
\* whitespace.
Spellings ==
    {road,
     <<"R","o","a","d">>,
     <<"R","O","A","D">>,
     trafficsign,
     <<"T","r","a","f","f","i","c","S","i","g","n">>,
     <<"T","r","a","f","f","i","c"," ","S","i","g","n">>,
     <<"r","o","a","d","s">>,
     <<"b","r","i","d","g","e">>,
     <<>>}
Pads == SeqsUpTo({" ", "\t"}, MaxPad)
Folders == {a \o sp \o b : a \in Pads, sp \in Spellings, b \in Pads}

ScanFolders == {<<"R","o","a","d">>, <<"T","r","a","f","f","i","c","S","i","g","n">>,
                <<"b","r","i","d","g","e">>}
FunctionIds == {None, Some(1), Some(2)}
DirPool == {PathJoin("data", "roads"), PathJoin("data", "nowhere")}
Dirs == {PathJoin(Cwd, "Road Kerb"), PathJoin(Cwd, "Traffic Sign")} \cup DirPool
SameEverywhere(worlds) == {[d \in Dirs |-> w] : w \in worlds}

\* ---------------------------------------------------------- factory actions

InitFactory(disks) ==
    /\ inp = None
    /\ disk \in disks
    /\ fac = NoObject /\ env = NoObject
    /\ ret = Idle

NewFactory(folders, ids) ==
    /\ fac = NoObject
    /\ \E folder \in folders, function_id \in ids :
         /\ fac' = Factory(folder, function_id)
         /\ inp' = [folder |-> folder, function_id |-> function_id]
    /\ ret' = [op |-> "Factory", out |-> Ok(None)]
    /\ UNCHANGED <<disk, env>>

SetRoadDir ==
    /\ fac # NoObject
    /\ \E dir \in DirPool :
         /\ fac' = set_road_dir(fac, dir)
         /\ ret' = [op |-> "set_road_dir", dir |-> dir, out |-> Ok(None)]
    /\ UNCHANGED <<inp, disk, env>>

SetTrafficSignDir ==
    /\ fac # NoObject
    /\ \E dir \in DirPool :
         /\ fac' = set_traffic_sign_dir(fac, dir)
         /\ ret' = [op |-> "set_traffic_sign_dir", dir |-> dir, out |-> Ok(None)]
    /\ UNCHANGED <<inp, disk, env>>

GetFolderInfo ==
    /\ fac # NoObject
    /\ ret' = [op |-> "get_folder_info", out |-> get_folder_info(fac)]
    /\ UNCHANGED <<inp, disk, fac, env>>

GetCityObjects ==
    /\ fac # NoObject
    /\ \E r \in {get_city_objects(fac, None, disk)} :
         ret' = [op |-> "get_city_objects", out |-> r.out, events |-> r.events]
    /\ UNCHANGED <<inp, disk, fac, env>>

\* Category resolution: any spelling of the tag.
InitResolve == InitFactory(SameEverywhere({NoDirectory, OneFile}))
NewFactoryAnyTag == NewFactory(Folders, {None, Some(1)})

SpecResolve == InitResolve /\ [][NewFactoryAnyTag \/ GetFolderInfo \/ GetCityObjects]_vars

\* The directory setters: any set of the directories may exist.
InitDirs == InitFactory([Dirs -> {NoDirectory, OneFile}])
NewFactoryOfKind == NewFactory(ScanFolders, {None, Some(2)})

SpecDirs ==
    InitDirs /\ [][NewFactoryOfKind \/ SetRoadDir \/ SetTrafficSignDir
                    \/ GetFolderInfo \/ GetCityObjects]_vars

\* The directory scan: any listing and any reader outcomes.
InitScan == InitFactory(SameEverywhere(ScanWorlds))
NewFactoryScan == NewFactory(ScanFolders, FunctionIds)

SpecScan == InitScan /\ [][NewFactoryScan \/ GetCityObjects]_vars

\* ------------------------------------------------------ environment actions

Regions == {[readable |-> FALSE, geometry |-> "none"],
            [readable |-> TRUE, geometry |-> "area-1"],
            [readable |-> TRUE, geometry |-> "area-2"]}

\* The road directory holds up to MaxFiles of a.gml and b.tar.gml, the sign
\* directory at most a.gml; either may be missing.
RoadWorlds == Worlds(Listings({Fa, Fb}, MaxFiles),
                     {Unreadable, Readable(TableScenario), Readable(TableOne)})
SignWorlds == Worlds({<<>>, <<Fa>>}, {Unreadable, Readable(TableOne)})
EnvDisks ==
    {[d \in Dirs |-> IF d = PathJoin(Cwd, "Road Kerb") THEN w1
                     ELSE IF d = PathJoin(Cwd, "Traffic Sign") THEN w2
                     ELSE NoDirectory] : w1 \in RoadWorlds, w2 \in SignWorlds}

ItemPool == {None, Some(<<>>), Some(<<reconstruct(RingA).val>>)}
KwargsPool == {{}, FigSize}

InitEnv ==
    /\ inp = None
    /\ disk \in EnvDisks
    /\ fac = NoObject /\ env = NoObject
    /\ ret = Idle

NewEnv ==
    /\ env = NoObject
    /\ ret = Idle
    /\ \E region \in Regions :
         \E r \in {DrivingEnvironment(<<"area.geojson">>, region)} :
         /\ env' = IF r.ok THEN r.val ELSE env
         /\ ret' = [op |-> "DrivingEnvironment",
                    out |-> IF r.ok THEN Ok(None) ELSE r]
    /\ UNCHANGED <<inp, disk, fac>>

GenerateRoads ==
    /\ env # NoObject
    /\ \E r \in {generate_roads(env, disk)} :
         ret' = [op |-> "generate_roads", out |-> r.out, events |-> r.events]
    /\ UNCHANGED <<inp, disk, fac, env>>

GenerateTrafficSigns ==
    /\ env # NoObject
    /\ \E r \in {generate_traffic_signs(env, disk)} :
         ret' = [op |-> "generate_traffic_signs", out |-> r.out, events |-> r.events]
    /\ UNCHANGED <<inp, disk, fac, env>>

GenerateAll ==
    /\ env # NoObject
    /\ \E r \in {generate_all(env, disk)} :
         ret' = [op |-> "generate_all", out |-> r.out, events |-> r.events]
    /\ UNCHANGED <<inp, disk, fac, env>>

Visualize ==
    /\ env # NoObject
    /\ \E items \in ItemPool, kwargs \in KwargsPool :
         \E r \in {visualize(env, items, kwargs, disk)} :
           ret' = [op |-> "visualize", items |-> items, kwargs |-> kwargs,
                   out |-> r.out, events |-> r.events]
    /\ UNCHANGED <<inp, disk, fac, env>>

\* Running the module as a script.
Main ==
    /\ env = NoObject
    /\ ret = Idle
    /\ \E region \in Regions :
         \E r \in {main(region, disk)} :
           ret' = [op |-> "main", out |-> r.out, events |-> r.events]
    /\ UNCHANGED <<inp, disk, fac, env>>

SpecEnv ==
    InitEnv /\ [][NewEnv \/ GenerateRoads \/ GenerateTrafficSigns \/ GenerateAll
                   \/ Visualize \/ Main]_vars

\* ------------------------------------------------------------ ring actions

InitRing ==
    /\ inp \in RingBuffers
    /\ disk = [d \in {} |-> NoDirectory]
    /\ fac = NoObject /\ env = NoObject
    /\ ret = Idle

Reconstruct ==
    /\ ret = Idle
    /\ ret' = [op |-> "reconstruct", b |-> inp, out |-> reconstruct(inp)]
    /\ UNCHANGED <<inp, disk, fac, env>>

SpecRing == InitRing /\ [][Reconstruct]_vars

\* ---------------------------------------------------------- entity actions

InitEntity ==
    /\ inp \in [gml : TablePool, index : 0..(MaxRows + 1)]
    /\ disk = [d \in {} |-> NoDirectory]
    /\ fac = NoObject /\ env = NoObject
    /\ ret = Idle

ConstructRoad ==
    /\ ret = Idle
    /\ ret' = [op |-> "construct", gml |-> inp.gml, index |-> inp.index,
               out |-> Road(inp.gml, inp.index)]
    /\ UNCHANGED <<inp, disk, fac, env>>

ConstructTrafficSign ==
    /\ ret = Idle
    /\ ret' = [op |-> "construct", gml |-> inp.gml, index |-> inp.index,
               out |-> TrafficSign(inp.gml, inp.index)]
    /\ UNCHANGED <<inp, disk, fac, env>>

SpecEntity == InitEntity /\ [][ConstructRoad \/ ConstructTrafficSign]_vars

\* ------------------------------------------------------------- claim C8

\* A buffer the reader can hand over: a ring of at least four triples whose
\* last triple repeats its first, or a buffer whose size is no multiple of 3.
Triple(b, i) == <<b[3*i - 2], b[3*i - 1], b[3*i]>>
ClosedRing(b) ==
    /\ Len(b) % 3 = 0
    /\ Len(b) \div 3 >= 4
    /\ Triple(b, 1) = Triple(b, Len(b) \div 3)

\* C8 as stated: a buffer whose size is a multiple of 3 yields a polygon of
\* len(b)/3 boundary points, the buffer's (x, y) pairs in order with z
\* dropped; any other size fails with InvalidGeometry.
C8_AsStated ==
    ret.op = "reconstruct" =>
        LET b == ret.b IN
        /\ ClosedRing(b) =>
              /\ ret.out.ok
              /\ Len(ret.out.val.exterior) = Len(b) \div 3
              /\ \A i \in 1..(Len(b) \div 3) :
                    ret.out.val.exterior[i] = <<b[3*i - 2], b[3*i - 1]>>
        /\ Len(b) % 3 # 0 => InvalidGeometry(ret.out)

\* C8 amended: a closed ring of at least four triples yields a polygon of
\* len(b)/3 boundary points, the buffer's (x, y, z) triples in order with z
\* kept; a size that is no multiple of 3 fails with InvalidGeometry and
\* yields no polygon.
C8_Reconstruct ==
    ret.op = "reconstruct" =>
        LET b == ret.b IN
        /\ ClosedRing(b) =>
              /\ ret.out.ok
              /\ Len(ret.out.val.exterior) = Len(b) \div 3
              /\ \A i \in 1..(Len(b) \div 3) :
                    ret.out.val.exterior[i] = Triple(b, i)
        /\ Len(b) % 3 # 0 => InvalidGeometry(ret.out)

C8_Witness ==
    /\ ret.op = "reconstruct"
    /\ ClosedRing(ret.b)
    /\ ret.out.ok
    /\ \E i \in 1..Len(ret.out.val.exterior) : ret.out.val.exterior[i][3] = 1

\* ------------------------------------------------------------ claim C10

RingCount(gml, index) == Len(gml[index + 1].geometry)

\* C10 as stated: an entity built from an index inside the table has the
\* row's name and one polygon per ring buffer, in source order; an index
\* beyond the rows fails with IndexOutOfRange; the entity keeps no reference
\* to the source table.
C10_AsStated ==
    ret.op = "construct" =>
        IF ret.index < NRows(ret.gml)
        THEN ret.out.ok =>
               /\ ret.out.val.name = ret.gml[ret.index + 1].name
               /\ Len(ret.out.val.polygons) = RingCount(ret.gml, ret.index)
               /\ DOMAIN ret.out.val = {"kind", "name", "polygons"}
        ELSE IndexOutOfRange(ret.out)

\* C10 amended: as stated, except that the entity keeps a reference to the
\* source table in its gml field.  Polygon i is the reconstruction of ring
\* buffer i, and construction succeeds when every ring buffer reconstructs.
C10_Construct ==
    ret.op = "construct" =>
        IF ret.index < NRows(ret.gml)
        THEN LET rings == ret.gml[ret.index + 1].geometry IN
             /\ ret.out.ok <=> \A i \in 1..Len(rings) : Len(rings[i]) % 3 = 0
             /\ ret.out.ok =>
                  /\ ret.out.val.name = ret.gml[ret.index + 1].name
                  /\ Len(ret.out.val.polygons) = Len(rings)
                  /\ \A i \in 1..Len(rings) :
                        /\ Len(ret.out.val.polygons[i].exterior) = Len(rings[i]) \div 3
                        /\ ret.out.val.polygons[i].exterior[2] = Triple(rings[i], 2)
                  /\ ret.out.val.gml = ret.gml
             /\ ~ret.out.ok => InvalidGeometry(ret.out)
        ELSE IndexOutOfRange(ret.out)

C10_Witness ==
    /\ ret.op = "construct"
    /\ ret.index = 1
    /\ ret.out.ok
    /\ Len(ret.out.val.polygons) = 2
    /\ ret.out.val.name = "sign"

\* -------------------------------------------------- claims on the factory

\* The factory's category as the specification names it, read off the
\* stored tag, and the directory and entity kind that belong to it.
IsRoad(f) == f.folder = road
IsTrafficSign(f) == f.folder = trafficsign
KnownCategory(f) == IsRoad(f) \/ IsTrafficSign(f)
CategoryDir(f) == IF IsRoad(f) THEN f._road_dir ELSE f._traffic_sign_dir
CategoryKind(f) == IF IsRoad(f) THEN "Road" ELSE "TrafficSign"

\* A raw tag spells `tag` when, between runs of whitespace, it holds the
\* tag's letters in either case.
Capital(c) ==
    IF \E i \in 1..26 : LowerCase[i] = c
    THEN UpperCase[CHOOSE i \in 1..26 : LowerCase[i] = c]
    ELSE c

Spells(raw, tag) ==
    \E i \in 1..(Len(raw) + 1) :
        /\ i + Len(tag) - 1 <= Len(raw)
        /\ \A k \in 1..Len(tag) : raw[i + k - 1] \in {tag[k], Capital(tag[k])}
        /\ \A k \in 1..(i - 1) : raw[k] \in Whitespace
        /\ \A k \in (i + Len(tag))..Len(raw) : raw[k] \in Whitespace

\* C3: resolve() succeeds exactly when the category given at construction,
\* trimmed and lower-cased, is the Road or the TrafficSign tag, and then
\* returns that category's directory and constructor; for any other
\* category construction succeeds, and resolve() and get_city_objects fail
\* with UnknownCategory.
C3_Resolve ==
    /\ ret.op = "Factory" => ret.out.ok
    /\ ret.op = "get_folder_info" =>
         IF Spells(inp.folder, road)
         THEN ret.out = Ok([dir |-> fac._road_dir, ctor |-> "get_road"])
         ELSE IF Spells(inp.folder, trafficsign)
              THEN ret.out = Ok([dir |-> fac._traffic_sign_dir, ctor |-> "get_traffic_sign"])
              ELSE UnknownCategory(ret.out)
    /\ ret.op = "get_city_objects" =>
         (UnknownCategory(ret.out)
            <=> ~(Spells(inp.folder, road) \/ Spells(inp.folder, trafficsign)))

C3_Witness ==
    /\ ret.op = "get_folder_info"
    /\ inp.folder = <<" ", "R", "O", "A", "D", "\t">>
    /\ ret.out.ok
    /\ ret.out.val.ctor = "get_road"

\* C9: a setter never fails and changes only its category's directory; a
\* directory changes only through its setter; resolve() and the scan use
\* the directory currently set for the factory's category; a directory that
\* does not exist is reported only by the scan, as DirectoryNotFound.
C9_SetDirectory ==
    [][/\ ret'.op = "set_road_dir" =>
            /\ ret'.out.ok
            /\ fac'._road_dir = ret'.dir
            /\ fac'.folder = fac.folder
            /\ fac'.function_id = fac.function_id
            /\ fac'._traffic_sign_dir = fac._traffic_sign_dir
       /\ ret'.op = "set_traffic_sign_dir" =>
            /\ ret'.out.ok
            /\ fac'._traffic_sign_dir = ret'.dir
            /\ fac'.folder = fac.folder
            /\ fac'.function_id = fac.function_id
            /\ fac'._road_dir = fac._road_dir
       /\ fac # NoObject =>
            /\ fac'._road_dir # fac._road_dir => ret'.op = "set_road_dir"
            /\ fac'._traffic_sign_dir # fac._traffic_sign_dir
                  => ret'.op = "set_traffic_sign_dir"
       /\ ret'.op = "get_folder_info" /\ KnownCategory(fac) =>
            /\ ret'.out.ok
            /\ ret'.out.val.dir = CategoryDir(fac)
       /\ ret'.op = "get_city_objects" /\ KnownCategory(fac) =>
            /\ ret'.events[1] = [kind |-> "listdir", dir |-> CategoryDir(fac)]
            /\ \A i \in 2..Len(ret'.events) :
                  ret'.events[i].path.dir = CategoryDir(fac)
            /\ DirectoryNotFound(ret'.out) <=> ~disk[CategoryDir(fac)].exists
            /\ ret'.out.ok <=> disk[CategoryDir(fac)].exists
      ]_vars

C9_Witness ==
    /\ ret.op = "get_city_objects"
    /\ IsRoad(fac)
    /\ fac._road_dir = PathJoin("data", "nowhere")
    /\ disk[PathJoin(Cwd, "Road Kerb")].exists
    /\ ~disk[PathJoin("data", "nowhere")].exists
    /\ DirectoryNotFound(ret.out)

\* ----------------------------------------------------- claims on the scan

\* A name whose extension is exactly ".gml": it ends in ".gml" and
\* something other than dots precedes that.
IsGmlFile(name) ==
    /\ Len(name) > 4
    /\ SubSeq(name, Len(name) - 3, Len(name)) = DotGml
    /\ \E k \in 1..(Len(name) - 4) : name[k] # "."

\* The scanned directory's content, and the positions of its .gml files.
Scanned == disk[CategoryDir(fac)]
GmlPositions == {i \in 1..Len(Scanned.listing) : IsGmlFile(Scanned.listing[i])}
TableAt(i) == Scanned.read[Scanned.listing[i]].table
ReadableAt(i) == Scanned.read[Scanned.listing[i]].readable

\* The whole part of the function value h/2.
Whole(h) == CHOOSE n \in 0..h : 2 * n <= h /\ h < 2 * n + 2

Matches(row) == fac.function_id.none \/ Whole(row.function) = fac.function_id.val

\* The selected rows, as (position in the listing, row index) pairs, and a
\* pair's place in listing order then row order.
SelectedRows ==
    UNION {{<<i, j>> : j \in {k \in 0..(NRows(TableAt(i)) - 1) : Matches(TableAt(i)[k + 1])}}
           : i \in {i \in GmlPositions : ReadableAt(i)}}

Before(p, q) == p[1] < q[1] \/ (p[1] = q[1] /\ p[2] < q[2])
Place(p) == Cardinality({q \in SelectedRows : Before(q, p)}) + 1

WellFormedRow(row) == \A i \in 1..Len(row.geometry) : Len(row.geometry[i]) % 3 = 0

ScanDone == ret.op = "get_city_objects" /\ KnownCategory(fac) /\ Scanned.exists

ReadEvents == SelectSeq(ret.events, LAMBDA e : e.kind = "read_file")

\* C1: the scan returns one entity per selected row and nothing else, in
\* listing order of the files and row order within a file; without a filter
\* every row of every .gml file is selected, with filter k the rows whose
\* int(function) is k.  (When every .gml file is readable and every selected
\* row well-formed; otherwise the call fails.)
C1_Selection ==
    ScanDone =>
        IF /\ \A i \in GmlPositions : ReadableAt(i)
           /\ \A p \in SelectedRows : WellFormedRow(TableAt(p[1])[p[2] + 1])
        THEN /\ ret.out.ok
             /\ Len(ret.out.val) = Cardinality(SelectedRows)
             /\ \A p \in SelectedRows :
                  LET e == ret.out.val[Place(p)]
                      row == TableAt(p[1])[p[2] + 1]
                  IN  /\ e.kind = CategoryKind(fac)
                      /\ e.name = row.name
                      /\ e.gml = TableAt(p[1])
                      /\ Len(e.polygons) = Len(row.geometry)
        ELSE ~ret.out.ok

C1_Witness ==
    /\ ScanDone
    /\ fac.function_id = Some(1)
    /\ ret.out.ok
    /\ Len(ret.out.val) = 3
    /\ TableAt(1) = TableMixed

FirstUnreadable == CHOOSE i \in GmlPositions :
    ~ReadableAt(i) /\ \A j \in GmlPositions : j < i => ReadableAt(j)

EarlierRowsWellFormed ==
    \A p \in SelectedRows : p[1] < FirstUnreadable => WellFormedRow(TableAt(p[1])[p[2] + 1])

\* C2 as stated: when a .gml file cannot be read the call fails with a
\* FeatureFileReadError that carries the offending file's path, returns no
\* entities and reads no later file.
C2_AsStated ==
    ScanDone /\ (\E i \in GmlPositions : ~ReadableAt(i)) /\ EarlierRowsWellFormed =>
        /\ FeatureFileReadError(ret.out)
        /\ "path" \in DOMAIN ret.out.err.info
        /\ ret.out.err.info.path = PathJoin(CategoryDir(fac), Scanned.listing[FirstUnreadable])
        /\ Len(ReadEvents) = Cardinality({i \in GmlPositions : i <= FirstUnreadable})

\* C2 amended: when a .gml file cannot be read the call fails and returns no
\* entities; the failure is the reader's own exception for the first such
\* file, as the reader raised it and with nothing attached; the reader is
\* called for the .gml files up to that one, which is the last call, and for
\* none after it.  (The failure is the reader's unless a selected row of an
\* earlier file was malformed.)
C2_FailFast ==
    ScanDone /\ (\E i \in GmlPositions : ~ReadableAt(i)) =>
        /\ ~ret.out.ok
        /\ EarlierRowsWellFormed
              => /\ FeatureFileReadError(ret.out)
                 /\ ret.out.err.info = Scanned.read[Scanned.listing[FirstUnreadable]].error
                 /\ Len(ReadEvents) =
                       Cardinality({i \in GmlPositions : i <= FirstUnreadable})
                 /\ ReadEvents[Len(ReadEvents)].path =
                       PathJoin(CategoryDir(fac), Scanned.listing[FirstUnreadable])

C2_Witness ==
    /\ ScanDone
    /\ FeatureFileReadError(ret.out)
    /\ Len(ReadEvents) = 2
    /\ Cardinality(SelectedRows) > 0

\* C5: a directory without a file whose extension is exactly ".gml" scans
\* to the empty sequence without a reader call; so does a directory whose
\* readable .gml files hold no row matching the filter.
C5_Empty ==
    ScanDone =>
        /\ GmlPositions = {} => ret.out = Ok(<<>>) /\ ReadEvents = <<>>
        /\ (/\ \A i \in GmlPositions : ReadableAt(i)
            /\ SelectedRows = {}) => ret.out = Ok(<<>>)

C5_Witness ==
    /\ ScanDone
    /\ Scanned.listing = <<Fc, Fh>>
    /\ Scanned.read[Fc].readable
    /\ ret.out = Ok(<<>>)
    /\ ReadEvents = <<>>

\* ---------------------------------------------- claims on the environment

\* The entities of both generators, roads first, and the number of
\* polygons the first n of them hold.
BothGenerated == generate_roads(env, disk).out.val \o generate_traffic_signs(env, disk).out.val

RECURSIVE PolygonsIn(_, _)
PolygonsIn(entities, n) ==
    IF n = 0 THEN 0 ELSE PolygonsIn(entities, n - 1) + Len(entities[n].polygons)

\* C4: generate_all() is the polygons of the road entities followed by those
\* of the sign entities, entity by entity and ring by ring; its length is the
\* sum of the entities' polygon counts.
C4_GenerateAll ==
    ret.op = "generate_all" /\ ret.out.ok =>
        LET es == BothGenerated IN
        /\ generate_roads(env, disk).out.ok
        /\ generate_traffic_signs(env, disk).out.ok
        /\ Len(ret.out.val) = PolygonsIn(es, Len(es))
        /\ \A i \in 1..Len(es) : \A j \in 1..Len(es[i].polygons) :
              ret.out.val[PolygonsIn(es, i - 1) + j] = es[i].polygons[j]

C4_Witness ==
    /\ ret.op = "generate_all"
    /\ ret.out.ok
    /\ Len(generate_roads(env, disk).out.val) = 4
    /\ Len(generate_traffic_signs(env, disk).out.val) = 1
    /\ Len(ret.out.val) = 6

\* C6: the bootstrap constructs the environment, then generates all
\* geometry, then renders it with the fixed display size, in that order; the
\* construction accepts the arguments the bootstrap passes.
C6_Bootstrap ==
    ret.op = "main" =>
        /\ ret.events[1].kind = "DrivingEnvironment"
        /\ ~(~ret.out.ok /\ ret.out.err.at = "DrivingEnvironment.__init__")
        /\ ret.out.ok =>
              LET n == Len(ret.events) IN
              /\ \A i \in 2..(n - 3) : ret.events[i].kind \in {"listdir", "read_file"}
              /\ ret.events[n - 2].kind = "GeoDataFrame"
              /\ ret.events[n - 1] = [kind |-> "plot", kwargs |-> FigSize]
              /\ ret.events[n].kind = "show"

\* C7: visualize generates first exactly when items is absent or empty and
\* then draws the generated polygons; given items are drawn as passed,
\* without a scan.  The draw happens once, after any generation, and
\* nothing is returned.  (When generation fails, so does visualize, with no
\* draw.)
Scans(events) == SelectSeq(events, LAMBDA e : e.kind \in {"listdir", "read_file"})

C7_Visualize ==
    ret.op = "visualize" =>
        LET n == Len(ret.events) IN
        IF ret.items.none \/ ret.items.val = <<>>
        THEN LET g == generate_all(env, disk) IN
             IF g.out.ok
             THEN /\ ret.out = Ok(None)
                  /\ SubSeq(ret.events, 1, n - 3) = g.events
                  /\ Scans(g.events) = g.events /\ Len(g.events) >= 2
                  /\ SubSeq(ret.events, n - 2, n) = Draw(g.out.val, ret.kwargs)
             ELSE /\ ret.out = g.out
                  /\ Scans(ret.events) = ret.events
        ELSE /\ ret.out = Ok(None)
             /\ ret.events = Draw(ret.items.val, ret.kwargs)

C7_Witness ==
    /\ ret.op = "visualize"
    /\ ret.items = Some(<<>>)
    /\ ret.out = Ok(None)
    /\ Len(ret.events) > 5
    /\ ret.events[Len(ret.events) - 2].geometry # <<>>

=============================================================================
